---- MODULE Spec2Model ----
(***************************************************************************)
(* Model of src/rectangle.py: class Rectangle, a rectangle given by its    *)
(* center, its circumradius and the orientation angles of its diagonals.   *)
(*                                                                         *)
(* Number representation.  The code computes in floating point; the model  *)
(* computes in exact real arithmetic, restricted to values on which every  *)
(* operation of the code is exact over the integers:                       *)
(*   - an angle is an index k into twelve directions of the circle whose   *)
(*     cosine and sine are rational with denominator TrigDen (the 3-4-5    *)
(*     triangle); direction k + QuarterTurn is direction k turned by a     *)
(*     right angle, and k + FullTurn is the same direction as k although   *)
(*     the two angle values differ numerically;                            *)
(*   - a radius is a multiple of TrigDen, so radius * cos(angle) is an     *)
(*     integer;                                                            *)
(*   - a length or an area v >= 0 returned by math.sqrt is irrational in   *)
(*     general and is represented by v * v (exact, and one-to-one on the   *)
(*     non-negative reals).                                                *)
(* Rounding and overflow of floating point are outside the model.          *)
(***************************************************************************)
EXTENDS Integers, Sequences, FiniteSets, TLC

VARIABLES rect, other, pre, last, pc, local, seen

vars == <<rect, other, pre, last, pc, local, seen>>

(* ---------------------------- bounds ---------------------------------- *)

MaxCoord == 1
MaxRadius == 2
MaxAngle == 7

(* ------------------------ trigonometry -------------------------------- *)

TrigDen == 5
QuarterTurn == 3
HalfTurn == 6
FullTurn == 12

CosTable == <<5, 4, 3, 0, -3, -4, -5, -4, -3, 0, 3, 4>>
SinTable == <<0, 3, 4, 5, 4, 3, 0, -3, -4, -5, -4, -3>>

\* TrigDen * math.cos(angle)
CosNum(angle) == CosTable[(angle % FullTurn) + 1]

\* TrigDen * math.sin(angle)
SinNum(angle) == SinTable[(angle % FullTurn) + 1]

abs(x) == IF x < 0 THEN -x ELSE x

\* pow(x, 2)
pow2(x) == x * x

\* math.sqrt(v): the root of v, represented by its square
math_sqrt(v) == v

\* a field of the object that no statement has assigned yet
Unset == <<>>

(* ------------------------ input domains ------------------------------- *)

Coords == -MaxCoord .. MaxCoord
RadiusInputs == {TrigDen * k : k \in -MaxRadius .. MaxRadius}
Angles == 0 .. MaxAngle

(* ------------------------ class Rectangle ----------------------------- *)

\* mutant of vertex_calculation: the cosine is used for both coordinates
vertex_calculation_cos_twice(self, angle) ==
    << (self.radius * CosNum(angle)) \div TrigDen + self.x_center,
       (self.radius * CosNum(angle)) \div TrigDen + self.y_center >>

vertex_calculation(self, angle) ==
    << (self.radius * CosNum(angle)) \div TrigDen + self.x_center,
       (self.radius * SinNum(angle)) \div TrigDen + self.y_center >>

opposite_vertex(self, vertex) ==
    << 2 * self.x_center - vertex[1],
       2 * self.y_center - vertex[2] >>

distance_calculation(point_a, point_b) ==
    math_sqrt(pow2(point_a[1] - point_b[1]) + pow2(point_a[2] - point_b[2]))

\* mutant of area_calculation: the second side is taken from p1 to p3
area_calculation_p1_p3(self) ==
    distance_calculation(self.p1, self.p2) * distance_calculation(self.p1, self.p3)

\* the product of two roots is the root of the product
area_calculation(self) ==
    distance_calculation(self.p1, self.p2) * distance_calculation(self.p2, self.p3)

__init__(x_center, y_center, radius, alpha_angle, beta_angle) ==
    LET s53 == [x_center |-> x_center, y_center |-> y_center,
                radius |-> abs(radius),
                alpha_angle |-> alpha_angle, beta_angle |-> beta_angle,
                p1 |-> Unset, p2 |-> Unset, p3 |-> Unset, p4 |-> Unset,
                area |-> Unset]
        s54 == [s53 EXCEPT !.p1 = vertex_calculation(s53, s53.alpha_angle)]
        s55 == [s54 EXCEPT !.p2 = vertex_calculation(s54, s54.beta_angle)]
        s56 == [s55 EXCEPT !.p3 = opposite_vertex(s55, s55.p1)]
        s57 == [s56 EXCEPT !.p4 = opposite_vertex(s56, s56.p2)]
    IN  [s57 EXCEPT !.area = area_calculation(s57)]

\* mutant of change_x_center_line: p3 is not shifted
change_x_center_line_p3_unshifted(self, line, new_x_center, delta) ==
    CASE line = 133 -> [self EXCEPT !.x_center = new_x_center]
      [] line = 134 -> [self EXCEPT !.p1 = <<self.p1[1] + delta, self.p1[2]>>]
      [] line = 135 -> [self EXCEPT !.p2 = <<self.p2[1] + delta, self.p2[2]>>]
      [] line = 136 -> self
      [] line = 137 -> [self EXCEPT !.p4 = <<self.p4[1] + delta, self.p4[2]>>]

\* the statement of change_x_center at source line `line` (line 132 is the
\* computation of the local delta)
change_x_center_line(self, line, new_x_center, delta) ==
    CASE line = 133 -> [self EXCEPT !.x_center = new_x_center]
      [] line = 134 -> [self EXCEPT !.p1 = <<self.p1[1] + delta, self.p1[2]>>]
      [] line = 135 -> [self EXCEPT !.p2 = <<self.p2[1] + delta, self.p2[2]>>]
      [] line = 136 -> [self EXCEPT !.p3 = <<self.p3[1] + delta, self.p3[2]>>]
      [] line = 137 -> [self EXCEPT !.p4 = <<self.p4[1] + delta, self.p4[2]>>]

change_x_center(self, new_x_center) ==
    LET delta == new_x_center - self.x_center
        s133 == change_x_center_line(self, 133, new_x_center, delta)
        s134 == change_x_center_line(s133, 134, new_x_center, delta)
        s135 == change_x_center_line(s134, 135, new_x_center, delta)
        s136 == change_x_center_line(s135, 136, new_x_center, delta)
    IN  change_x_center_line(s136, 137, new_x_center, delta)

\* mutant of change_y_center_line: p4 is shifted along x instead of y
change_y_center_line_p4_along_x(self, line, new_y_center, delta) ==
    CASE line = 149 -> [self EXCEPT !.y_center = new_y_center]
      [] line = 150 -> [self EXCEPT !.p1 = <<self.p1[1], self.p1[2] + delta>>]
      [] line = 151 -> [self EXCEPT !.p2 = <<self.p2[1], self.p2[2] + delta>>]
      [] line = 152 -> [self EXCEPT !.p3 = <<self.p3[1], self.p3[2] + delta>>]
      [] line = 153 -> [self EXCEPT !.p4 = <<self.p4[1] + delta, self.p4[2]>>]

\* mutant of change_y_center_line: p2 is not shifted
change_y_center_line_p2_unshifted(self, line, new_y_center, delta) ==
    CASE line = 149 -> [self EXCEPT !.y_center = new_y_center]
      [] line = 150 -> [self EXCEPT !.p1 = <<self.p1[1], self.p1[2] + delta>>]
      [] line = 151 -> self
      [] line = 152 -> [self EXCEPT !.p3 = <<self.p3[1], self.p3[2] + delta>>]
      [] line = 153 -> [self EXCEPT !.p4 = <<self.p4[1], self.p4[2] + delta>>]

\* the statement of change_y_center at source line `line` (line 148 is the
\* computation of the local delta)
change_y_center_line(self, line, new_y_center, delta) ==
    CASE line = 149 -> [self EXCEPT !.y_center = new_y_center]
      [] line = 150 -> [self EXCEPT !.p1 = <<self.p1[1], self.p1[2] + delta>>]
      [] line = 151 -> [self EXCEPT !.p2 = <<self.p2[1], self.p2[2] + delta>>]
      [] line = 152 -> [self EXCEPT !.p3 = <<self.p3[1], self.p3[2] + delta>>]
      [] line = 153 -> [self EXCEPT !.p4 = <<self.p4[1], self.p4[2] + delta>>]

change_y_center(self, new_y_center) ==
    LET delta == new_y_center - self.y_center
        s149 == change_y_center_line(self, 149, new_y_center, delta)
        s150 == change_y_center_line(s149, 150, new_y_center, delta)
        s151 == change_y_center_line(s150, 151, new_y_center, delta)
        s152 == change_y_center_line(s151, 152, new_y_center, delta)
    IN  change_y_center_line(s152, 153, new_y_center, delta)

\* mutant of change_radius_line: the radius is stored with its sign
change_radius_line_no_abs(self, line, new_radius) ==
    CASE line = 164 -> [self EXCEPT !.radius = new_radius]
      [] line = 165 -> [self EXCEPT !.p1 = vertex_calculation(self, self.alpha_angle)]
      [] line = 166 -> [self EXCEPT !.p2 = vertex_calculation(self, self.beta_angle)]
      [] line = 167 -> [self EXCEPT !.p3 = opposite_vertex(self, self.p1)]
      [] line = 168 -> [self EXCEPT !.p4 = opposite_vertex(self, self.p2)]
      [] line = 169 -> [self EXCEPT !.area = area_calculation(self)]

\* mutant of change_radius_line: p3 is not recomputed
change_radius_line_p3_stale(self, line, new_radius) ==
    CASE line = 164 -> [self EXCEPT !.radius = abs(new_radius)]
      [] line = 165 -> [self EXCEPT !.p1 = vertex_calculation(self, self.alpha_angle)]
      [] line = 166 -> [self EXCEPT !.p2 = vertex_calculation(self, self.beta_angle)]
      [] line = 167 -> self
      [] line = 168 -> [self EXCEPT !.p4 = opposite_vertex(self, self.p2)]
      [] line = 169 -> [self EXCEPT !.area = area_calculation(self)]

\* the statement of change_radius at source line `line`
change_radius_line(self, line, new_radius) ==
    CASE line = 164 -> [self EXCEPT !.radius = abs(new_radius)]
      [] line = 165 -> [self EXCEPT !.p1 = vertex_calculation(self, self.alpha_angle)]
      [] line = 166 -> [self EXCEPT !.p2 = vertex_calculation(self, self.beta_angle)]
      [] line = 167 -> [self EXCEPT !.p3 = opposite_vertex(self, self.p1)]
      [] line = 168 -> [self EXCEPT !.p4 = opposite_vertex(self, self.p2)]
      [] line = 169 -> [self EXCEPT !.area = area_calculation(self)]

change_radius(self, new_radius) ==
    LET s164 == change_radius_line(self, 164, new_radius)
        s165 == change_radius_line(s164, 165, new_radius)
        s166 == change_radius_line(s165, 166, new_radius)
        s167 == change_radius_line(s166, 167, new_radius)
        s168 == change_radius_line(s167, 168, new_radius)
    IN  change_radius_line(s168, 169, new_radius)

\* mutant of change_alpha_angle_line: the area is not recomputed
change_alpha_angle_line_stale_area(self, line, new_alpha_angle) ==
    CASE line = 180 -> [self EXCEPT !.alpha_angle = new_alpha_angle]
      [] line = 181 -> [self EXCEPT !.p1 = vertex_calculation(self, self.alpha_angle)]
      [] line = 182 -> [self EXCEPT !.p3 = opposite_vertex(self, self.p1)]
      [] line = 183 -> self

\* the statement of change_alpha_angle at source line `line`
change_alpha_angle_line(self, line, new_alpha_angle) ==
    CASE line = 180 -> [self EXCEPT !.alpha_angle = new_alpha_angle]
      [] line = 181 -> [self EXCEPT !.p1 = vertex_calculation(self, self.alpha_angle)]
      [] line = 182 -> [self EXCEPT !.p3 = opposite_vertex(self, self.p1)]
      [] line = 183 -> [self EXCEPT !.area = area_calculation(self)]

change_alpha_angle(self, new_alpha_angle) ==
    LET s180 == change_alpha_angle_line(self, 180, new_alpha_angle)
        s181 == change_alpha_angle_line(s180, 181, new_alpha_angle)
        s182 == change_alpha_angle_line(s181, 182, new_alpha_angle)
    IN  change_alpha_angle_line(s182, 183, new_alpha_angle)

\* mutant of change_beta_angle_line: the opposite of p2 is stored in p3
change_beta_angle_line_writes_p3(self, line, new_beta_angle) ==
    CASE line = 194 -> [self EXCEPT !.beta_angle = new_beta_angle]
      [] line = 195 -> [self EXCEPT !.p2 = vertex_calculation(self, self.beta_angle)]
      [] line = 196 -> [self EXCEPT !.p3 = opposite_vertex(self, self.p2)]
      [] line = 197 -> [self EXCEPT !.area = area_calculation(self)]

\* the statement of change_beta_angle at source line `line`
change_beta_angle_line(self, line, new_beta_angle) ==
    CASE line = 194 -> [self EXCEPT !.beta_angle = new_beta_angle]
      [] line = 195 -> [self EXCEPT !.p2 = vertex_calculation(self, self.beta_angle)]
      [] line = 196 -> [self EXCEPT !.p4 = opposite_vertex(self, self.p2)]
      [] line = 197 -> [self EXCEPT !.area = area_calculation(self)]

change_beta_angle(self, new_beta_angle) ==
    LET s194 == change_beta_angle_line(self, 194, new_beta_angle)
        s195 == change_beta_angle_line(s194, 195, new_beta_angle)
        s196 == change_beta_angle_line(s195, 196, new_beta_angle)
    IN  change_beta_angle_line(s196, 197, new_beta_angle)

get_vertices(self) == <<self.p1, self.p2, self.p3, self.p4>>

get_center(self) == <<self.x_center, self.y_center>>

get_radius(self) == self.radius

get_alpha_angle(self) == self.alpha_angle

get_beta_angle(self) == self.beta_angle

\* mutant of __eq__: the angles are compared in order only
eq_angles_in_order(self, o) ==
    /\ get_center(self) = get_center(o)
    /\ self.radius = get_radius(o)
    /\ self.alpha_angle = get_alpha_angle(o)
    /\ self.beta_angle = get_beta_angle(o)

__eq__(self, o) ==
    /\ get_center(self) = get_center(o)
    /\ self.radius = get_radius(o)
    /\ \/ (self.alpha_angle = get_alpha_angle(o) /\ self.beta_angle = get_beta_angle(o))
       \/ (self.alpha_angle = get_beta_angle(o) /\ self.beta_angle = get_alpha_angle(o))

(* ---------------------------------------------------------------------- *)
(* Spec: one Rectangle, constructed and then mutated by whole calls.      *)
(* pre is the object as it was when the last call began, last the call.   *)
(* ---------------------------------------------------------------------- *)

\* values of the variables a specification does not use
Idle == [op |-> "idle", line |-> 0]
NoRect == "none"
NoCall == [op |-> "none", arg |-> 0]
NoLocal == [new |-> 0, delta |-> 0]
NoSeen == [op |-> "none", line |-> 0, opposite |-> TRUE]

Init ==
    \E x \in Coords, y \in Coords, r \in RadiusInputs, a \in Angles, b \in Angles :
        /\ rect = __init__(x, y, r, a, b)
        /\ last = [op |-> "__init__", arg |-> <<x, y, r, a, b>>]
        /\ pre = NoRect
        /\ other = NoRect
        /\ pc = Idle
        /\ local = NoLocal
        /\ seen = NoSeen

Frame == UNCHANGED <<other, pc, local, seen>>

ChangeXCenter ==
    \E new_x_center \in Coords :
        /\ rect' = change_x_center(rect, new_x_center)
        /\ last' = [op |-> "change_x_center", arg |-> new_x_center]
        /\ pre' = rect
        /\ Frame

ChangeYCenter ==
    \E new_y_center \in Coords :
        /\ rect' = change_y_center(rect, new_y_center)
        /\ last' = [op |-> "change_y_center", arg |-> new_y_center]
        /\ pre' = rect
        /\ Frame

ChangeRadius ==
    \E new_radius \in RadiusInputs :
        /\ rect' = change_radius(rect, new_radius)
        /\ last' = [op |-> "change_radius", arg |-> new_radius]
        /\ pre' = rect
        /\ Frame

ChangeAlphaAngle ==
    \E new_alpha_angle \in Angles :
        /\ rect' = change_alpha_angle(rect, new_alpha_angle)
        /\ last' = [op |-> "change_alpha_angle", arg |-> new_alpha_angle]
        /\ pre' = rect
        /\ Frame

ChangeBetaAngle ==
    \E new_beta_angle \in Angles :
        /\ rect' = change_beta_angle(rect, new_beta_angle)
        /\ last' = [op |-> "change_beta_angle", arg |-> new_beta_angle]
        /\ pre' = rect
        /\ Frame

Next ==
    \/ ChangeXCenter
    \/ ChangeYCenter
    \/ ChangeRadius
    \/ ChangeAlphaAngle
    \/ ChangeBetaAngle

Spec == Init /\ [][Next]_vars

(* ------------------------ properties of Spec -------------------------- *)

OppositeVertexOf(r) ==
    /\ r.p3 = <<2 * r.x_center - r.p1[1], 2 * r.y_center - r.p1[2]>>
    /\ r.p4 = <<2 * r.x_center - r.p2[1], 2 * r.y_center - r.p2[2]>>

\* C1: after construction and after every mutator call, p3 = 2*center - p1
\* and p4 = 2*center - p2, component-wise.
OppositeVertexInvariant == OppositeVertexOf(rect)

OppositeVertexWitness ==
    /\ last.op \in {"change_x_center", "change_y_center"}
    /\ get_center(rect) # get_center(pre)
    /\ rect.radius > 0

SquaredDistanceToCenter(r, v) == pow2(v[1] - r.x_center) + pow2(v[2] - r.y_center)

\* C2: after construction and after every mutator call, each of p1..p4 is
\* at squared distance radius^2 from the current center.
RadiusInvariant ==
    \A i \in 1..4 :
        SquaredDistanceToCenter(rect, get_vertices(rect)[i]) = pow2(rect.radius)

RadiusWitness ==
    /\ last.op = "change_radius"
    /\ rect.radius > 0
    /\ rect.radius # pre.radius
    /\ get_center(rect) # <<0, 0>>

\* C3: after construction and after every mutator call, the stored area is
\* distance(p1,p2) * distance(p2,p3) of the current vertices, also after the
\* two translations, which do not assign area.
AreaConsistent == rect.area = area_calculation(rect)

AreaConsistentWitness ==
    /\ last.op \in {"change_x_center", "change_y_center"}
    /\ get_center(rect) # get_center(pre)
    /\ rect.area > 0

\* C4: the stored radius is never negative, and constructing with radius r
\* or calling change_radius(r) gives the same object as with -r.
NegativeRadiusNormalization ==
    /\ rect.radius >= 0
    /\ last.op = "__init__" =>
           rect = __init__(last.arg[1], last.arg[2], -last.arg[3], last.arg[4], last.arg[5])
    /\ last.op = "change_radius" =>
           /\ rect = change_radius(pre, -last.arg)
           /\ rect.radius = abs(last.arg)

NegativeRadiusWitness ==
    /\ last.op = "change_radius"
    /\ last.arg < 0
    /\ rect.radius = -last.arg
    /\ rect.p1 # pre.p1

\* C6: change_alpha_angle leaves p2, p4, beta_angle, radius and the center
\* as they were and sets alpha_angle; change_beta_angle leaves p1, p3,
\* alpha_angle, radius and the center as they were and sets beta_angle.
AngleMutationIsolation ==
    /\ last.op = "change_alpha_angle" =>
           /\ rect.p2 = pre.p2 /\ rect.p4 = pre.p4
           /\ rect.beta_angle = pre.beta_angle
           /\ rect.radius = pre.radius
           /\ get_center(rect) = get_center(pre)
           /\ rect.alpha_angle = last.arg
    /\ last.op = "change_beta_angle" =>
           /\ rect.p1 = pre.p1 /\ rect.p3 = pre.p3
           /\ rect.alpha_angle = pre.alpha_angle
           /\ rect.radius = pre.radius
           /\ get_center(rect) = get_center(pre)
           /\ rect.beta_angle = last.arg

AngleMutationWitness ==
    /\ last.op = "change_alpha_angle"
    /\ rect.p1 # pre.p1 /\ rect.p3 # pre.p3 /\ rect.area # pre.area
    /\ get_center(rect) # <<0, 0>>

HalfTurnApart(r) == (r.alpha_angle - r.beta_angle) % FullTurn = HalfTurn

\* C8: radius 0, equal angles and angles half a turn apart are accepted by
\* the constructor and by every mutator, and give area 0: radius 0 puts the
\* four vertices on the center, equal angles give p1 = p2 and p3 = p4,
\* angles half a turn apart give p2 = p3 and p4 = p1.
DegenerateAccepted ==
    /\ rect.radius = 0 =>
           /\ \A i \in 1..4 : get_vertices(rect)[i] = get_center(rect)
           /\ rect.area = 0
    /\ rect.alpha_angle = rect.beta_angle =>
           /\ rect.p1 = rect.p2 /\ rect.p3 = rect.p4
           /\ rect.area = 0
    /\ HalfTurnApart(rect) =>
           /\ rect.p2 = rect.p3 /\ rect.p4 = rect.p1
           /\ rect.area = 0

DegenerateWitness ==
    /\ last.op = "change_beta_angle"
    /\ HalfTurnApart(rect)
    /\ ~HalfTurnApart(pre)
    /\ rect.radius > 0
    /\ pre.area > 0

\* C10: after construction and after every mutator call, p1..p4 and area
\* are those of a new Rectangle constructed from the current x_center,
\* y_center, radius, alpha_angle and beta_angle.
AgreesWithConstruction ==
    rect = __init__(rect.x_center, rect.y_center, rect.radius,
                    rect.alpha_angle, rect.beta_angle)

AgreesWithConstructionWitness ==
    /\ last.op = "change_y_center"
    /\ rect.y_center # pre.y_center
    /\ pre.x_center # last.arg
    /\ rect.area > 0

(* ---------------------------------------------------------------------- *)
(* SpecTranslate: change_x_center(x0 + d) followed by change_y_center(y0  *)
(* + d) on a rectangle that was constructed, reshaped and translated      *)
(* before.  pre is the object when the pair of calls began, local.delta   *)
(* is d, pc.op is the position in the pair.                               *)
(* ---------------------------------------------------------------------- *)

MaxDelta == 2

Deltas == -MaxDelta .. MaxDelta

AtStart == [op |-> "start", line |-> 0]
AtXDone == [op |-> "x_done", line |-> 0]
AtDone == [op |-> "done", line |-> 0]

InitTranslate ==
    \E x \in Coords, y \in Coords, r \in RadiusInputs, a \in Angles, b \in Angles :
        /\ rect = __init__(x, y, r, a, b)
        /\ pre = rect
        /\ pc = AtStart
        /\ local = NoLocal
        /\ last = NoCall
        /\ other = NoRect
        /\ seen = NoSeen

FrameTranslate == UNCHANGED <<other, last, seen>>

ReshapeRadius ==
    /\ pc = AtStart
    /\ \E new_radius \in RadiusInputs : rect' = change_radius(rect, new_radius)
    /\ pre' = rect'
    /\ UNCHANGED <<pc, local>>
    /\ FrameTranslate

ReshapeAlphaAngle ==
    /\ pc = AtStart
    /\ \E new_alpha_angle \in Angles : rect' = change_alpha_angle(rect, new_alpha_angle)
    /\ pre' = rect'
    /\ UNCHANGED <<pc, local>>
    /\ FrameTranslate

ReshapeBetaAngle ==
    /\ pc = AtStart
    /\ \E new_beta_angle \in Angles : rect' = change_beta_angle(rect, new_beta_angle)
    /\ pre' = rect'
    /\ UNCHANGED <<pc, local>>
    /\ FrameTranslate

TranslateX ==
    /\ pc = AtStart
    /\ \E d \in Deltas :
        /\ rect.x_center + d \in Coords
        /\ rect.y_center + d \in Coords
        /\ rect' = change_x_center(rect, rect.x_center + d)
        /\ local' = [new |-> 0, delta |-> d]
    /\ pre' = rect
    /\ pc' = AtXDone
    /\ FrameTranslate

TranslateY ==
    /\ pc = AtXDone
    /\ rect' = change_y_center(rect, rect.y_center + local.delta)
    /\ pc' = AtDone
    /\ UNCHANGED <<pre, local>>
    /\ FrameTranslate

TranslateAgain ==
    /\ pc = AtDone
    /\ pc' = AtStart
    /\ pre' = rect
    /\ local' = NoLocal
    /\ UNCHANGED rect
    /\ FrameTranslate

NextTranslate ==
    \/ ReshapeRadius
    \/ ReshapeAlphaAngle
    \/ ReshapeBetaAngle
    \/ TranslateX
    \/ TranslateY
    \/ TranslateAgain

SpecTranslate == InitTranslate /\ [][NextTranslate]_vars

Shifted(point, dx, dy) == <<point[1] + dx, point[2] + dy>>

ShiftedBy(r, orig, dx, dy) ==
    /\ r.x_center = orig.x_center + dx
    /\ r.y_center = orig.y_center + dy
    /\ \A i \in 1..4 : get_vertices(r)[i] = Shifted(get_vertices(orig)[i], dx, dy)
    /\ r.radius = orig.radius
    /\ r.alpha_angle = orig.alpha_angle
    /\ r.beta_angle = orig.beta_angle
    /\ r.area = orig.area

\* C5: after change_x_center(x0 + d) the center and the four vertices are
\* the original ones shifted by (d, 0); after change_y_center(y0 + d) as
\* well they are the original ones shifted by (d, d); radius, alpha_angle,
\* beta_angle and area are the original ones throughout.
TranslationPreservesShape ==
    /\ pc = AtXDone => ShiftedBy(rect, pre, local.delta, 0)
    /\ pc = AtDone => ShiftedBy(rect, pre, local.delta, local.delta)

TranslationWitness ==
    /\ pc = AtDone
    /\ local.delta # 0
    /\ rect.area > 0
    /\ pre.p1 # rect.p1

(* ---------------------------------------------------------------------- *)
(* SpecEq: two Rectangles, rect and other, each constructed and mutated   *)
(* by whole calls, compared with __eq__.                                  *)
(* ---------------------------------------------------------------------- *)

EqMaxCoord == 1
EqMaxRadius == 1

EqCoords == 0 .. EqMaxCoord
EqRadiusInputs == {TrigDen * k : k \in -EqMaxRadius .. EqMaxRadius}
EqAngles == {0, QuarterTurn, FullTurn, FullTurn + QuarterTurn}

InitEq ==
    /\ \E x \in EqCoords, y \in EqCoords, r \in EqRadiusInputs, a \in EqAngles, b \in EqAngles :
        rect = __init__(x, y, r, a, b)
    /\ \E x \in EqCoords, y \in EqCoords, r \in EqRadiusInputs, a \in EqAngles, b \in EqAngles :
        other = __init__(x, y, r, a, b)
    /\ pre = NoRect
    /\ last = NoCall
    /\ pc = Idle
    /\ local = NoLocal
    /\ seen = NoSeen

FrameEq == UNCHANGED <<pre, last, pc, local, seen>>

EqChangeXCenter ==
    /\ \E new_x_center \in EqCoords :
        \/ rect' = change_x_center(rect, new_x_center) /\ UNCHANGED other
        \/ other' = change_x_center(other, new_x_center) /\ UNCHANGED rect
    /\ FrameEq

EqChangeYCenter ==
    /\ \E new_y_center \in EqCoords :
        \/ rect' = change_y_center(rect, new_y_center) /\ UNCHANGED other
        \/ other' = change_y_center(other, new_y_center) /\ UNCHANGED rect
    /\ FrameEq

EqChangeRadius ==
    /\ \E new_radius \in EqRadiusInputs :
        \/ rect' = change_radius(rect, new_radius) /\ UNCHANGED other
        \/ other' = change_radius(other, new_radius) /\ UNCHANGED rect
    /\ FrameEq

EqChangeAlphaAngle ==
    /\ \E new_alpha_angle \in EqAngles :
        \/ rect' = change_alpha_angle(rect, new_alpha_angle) /\ UNCHANGED other
        \/ other' = change_alpha_angle(other, new_alpha_angle) /\ UNCHANGED rect
    /\ FrameEq

EqChangeBetaAngle ==
    /\ \E new_beta_angle \in EqAngles :
        \/ rect' = change_beta_angle(rect, new_beta_angle) /\ UNCHANGED other
        \/ other' = change_beta_angle(other, new_beta_angle) /\ UNCHANGED rect
    /\ FrameEq

NextEq ==
    \/ EqChangeXCenter
    \/ EqChangeYCenter
    \/ EqChangeRadius
    \/ EqChangeAlphaAngle
    \/ EqChangeBetaAngle

SpecEq == InitEq /\ [][NextEq]_vars

SameParametersUpToSwap(a, b) ==
    /\ a.x_center = b.x_center
    /\ a.y_center = b.y_center
    /\ a.radius = b.radius
    /\ {a.alpha_angle, a.beta_angle} = {b.alpha_angle, b.beta_angle}
    /\ (a.alpha_angle = a.beta_angle) <=> (b.alpha_angle = b.beta_angle)

AnglesSwapped(r) ==
    [r EXCEPT !.alpha_angle = r.beta_angle, !.beta_angle = r.alpha_angle,
              !.p1 = r.p2, !.p2 = r.p1, !.p3 = r.p4, !.p4 = r.p3]

FullTurnApart(a, b) ==
    /\ get_vertices(a) = get_vertices(b)
    /\ get_center(a) = get_center(b)
    /\ a.radius = b.radius
    /\ \/ abs(a.alpha_angle - b.alpha_angle) = FullTurn
       \/ abs(a.beta_angle - b.beta_angle) = FullTurn
    /\ {a.alpha_angle, a.beta_angle} # {b.alpha_angle, b.beta_angle}

\* C7: rect == other exactly when the centers are equal, the radii are
\* equal and the angles match as an unordered pair; so the comparison is
\* symmetric, it is unchanged when alpha and beta of one side are swapped,
\* and it is false for angles a full turn apart although the vertices
\* coincide.
EqualityContract ==
    /\ __eq__(rect, other) <=> SameParametersUpToSwap(rect, other)
    /\ __eq__(rect, other) <=> __eq__(other, rect)
    /\ __eq__(rect, other) <=> __eq__(rect, AnglesSwapped(other))
    /\ __eq__(rect, AnglesSwapped(rect))
    /\ FullTurnApart(rect, other) => ~__eq__(rect, other)

EqualityWitness ==
    /\ FullTurnApart(rect, other)
    /\ rect.radius > 0
    /\ rect.alpha_angle # rect.beta_angle
    /\ __eq__(rect, AnglesSwapped(rect))
    /\ ~__eq__(rect, other)

(* ---------------------------------------------------------------------- *)
(* SpecSteps: one Rectangle whose mutators run one statement at a time,   *)
(* and a reader thread that is not synchronized with them.  pc is the     *)
(* call in progress and the source line of its next statement, local its  *)
(* argument and its local delta.  The reader calls get_center and         *)
(* get_vertices between two statements and records in seen where the      *)
(* mutator was and whether the values it read satisfy p3 = 2*center - p1  *)
(* and p4 = 2*center - p2.                                                *)
(* ---------------------------------------------------------------------- *)

StepMaxCoord == 1
StepMaxRadius == 1
StepMaxAngle == 3

StepCoords == 0 .. StepMaxCoord
StepRadiusInputs == {TrigDen * k : k \in -StepMaxRadius .. StepMaxRadius}
StepAngles == 0 .. StepMaxAngle

InitSteps ==
    /\ \E x \in StepCoords, y \in StepCoords, r \in StepRadiusInputs,
          a \in StepAngles, b \in StepAngles :
        rect = __init__(x, y, r, a, b)
    /\ pc = Idle
    /\ local = NoLocal
    /\ seen = NoSeen
    /\ pre = NoRect
    /\ last = NoCall
    /\ other = NoRect

FrameSteps == UNCHANGED <<other, pre, last>>

\* the statement that follows line `line` of a mutator whose last line is
\* `last_line`
After(line, last_line) ==
    IF line = last_line THEN Idle ELSE [pc EXCEPT !.line = line + 1]

CallChangeXCenter ==
    /\ pc = Idle
    /\ \E new_x_center \in StepCoords :
        local' = [new |-> new_x_center, delta |-> new_x_center - rect.x_center]
    /\ pc' = [op |-> "change_x_center", line |-> 133]
    /\ UNCHANGED <<rect, seen>>
    /\ FrameSteps

StepChangeXCenter ==
    /\ pc.op = "change_x_center"
    /\ rect' = change_x_center_line(rect, pc.line, local.new, local.delta)
    /\ pc' = After(pc.line, 137)
    /\ local' = IF pc.line = 137 THEN NoLocal ELSE local
    /\ UNCHANGED seen
    /\ FrameSteps

CallChangeYCenter ==
    /\ pc = Idle
    /\ \E new_y_center \in StepCoords :
        local' = [new |-> new_y_center, delta |-> new_y_center - rect.y_center]
    /\ pc' = [op |-> "change_y_center", line |-> 149]
    /\ UNCHANGED <<rect, seen>>
    /\ FrameSteps

StepChangeYCenter ==
    /\ pc.op = "change_y_center"
    /\ rect' = change_y_center_line(rect, pc.line, local.new, local.delta)
    /\ pc' = After(pc.line, 153)
    /\ local' = IF pc.line = 153 THEN NoLocal ELSE local
    /\ UNCHANGED seen
    /\ FrameSteps

CallChangeRadius ==
    /\ pc = Idle
    /\ \E new_radius \in StepRadiusInputs :
        local' = [new |-> new_radius, delta |-> 0]
    /\ pc' = [op |-> "change_radius", line |-> 164]
    /\ UNCHANGED <<rect, seen>>
    /\ FrameSteps

StepChangeRadius ==
    /\ pc.op = "change_radius"
    /\ rect' = change_radius_line(rect, pc.line, local.new)
    /\ pc' = After(pc.line, 169)
    /\ local' = IF pc.line = 169 THEN NoLocal ELSE local
    /\ UNCHANGED seen
    /\ FrameSteps

CallChangeAlphaAngle ==
    /\ pc = Idle
    /\ \E new_alpha_angle \in StepAngles :
        local' = [new |-> new_alpha_angle, delta |-> 0]
    /\ pc' = [op |-> "change_alpha_angle", line |-> 180]
    /\ UNCHANGED <<rect, seen>>
    /\ FrameSteps

StepChangeAlphaAngle ==
    /\ pc.op = "change_alpha_angle"
    /\ rect' = change_alpha_angle_line(rect, pc.line, local.new)
    /\ pc' = After(pc.line, 183)
    /\ local' = IF pc.line = 183 THEN NoLocal ELSE local
    /\ UNCHANGED seen
    /\ FrameSteps

CallChangeBetaAngle ==
    /\ pc = Idle
    /\ \E new_beta_angle \in StepAngles :
        local' = [new |-> new_beta_angle, delta |-> 0]
    /\ pc' = [op |-> "change_beta_angle", line |-> 194]
    /\ UNCHANGED <<rect, seen>>
    /\ FrameSteps

StepChangeBetaAngle ==
    /\ pc.op = "change_beta_angle"
    /\ rect' = change_beta_angle_line(rect, pc.line, local.new)
    /\ pc' = After(pc.line, 197)
    /\ local' = IF pc.line = 197 THEN NoLocal ELSE local
    /\ UNCHANGED seen
    /\ FrameSteps

\* what a reader finds in the values of get_center() and get_vertices()
ReadOpposite(center, vertices) ==
    /\ vertices[3] = <<2 * center[1] - vertices[1][1], 2 * center[2] - vertices[1][2]>>
    /\ vertices[4] = <<2 * center[1] - vertices[2][1], 2 * center[2] - vertices[2][2]>>

Read ==
    /\ seen' = [op |-> pc.op, line |-> pc.line,
                opposite |-> ReadOpposite(get_center(rect), get_vertices(rect))]
    /\ UNCHANGED <<rect, pc, local>>
    /\ FrameSteps

NextSteps ==
    \/ CallChangeXCenter
    \/ StepChangeXCenter
    \/ CallChangeYCenter
    \/ StepChangeYCenter
    \/ CallChangeRadius
    \/ StepChangeRadius
    \/ CallChangeAlphaAngle
    \/ StepChangeAlphaAngle
    \/ CallChangeBetaAngle
    \/ StepChangeBetaAngle
    \/ Read

SpecSteps == InitSteps /\ [][NextSteps]_vars

\* C9: whenever no mutator is in progress (construction or a mutator has
\* returned), p3 = 2*center - p1 and p4 = 2*center - p2, and a reader that
\* reads then finds them so; a reader that reads between two statements of
\* a mutator can find them violated (the witness: inside change_x_center,
\* the new x_center with vertices not yet shifted).
ConsistentAtReturn ==
    /\ pc = Idle => OppositeVertexOf(rect)
    /\ seen.op \in {"idle", "none"} => seen.opposite

TornReadWitness ==
    /\ pc = [op |-> "change_x_center", line |-> 134]
    /\ local.delta # 0
    /\ rect.x_center = local.new
    /\ rect.p3 # <<2 * rect.x_center - rect.p1[1], 2 * rect.y_center - rect.p1[2]>>
    /\ seen = [op |-> "change_x_center", line |-> 134, opposite |-> FALSE]

====
